---- MODULE Spec2Model ----
(***************************************************************************)
(* A model of the GPU dashboard of dgxtools (src/dgxtools/gpu_graph.py):   *)
(* the layout planner GpuGraph.calculate_sizes, and the session of         *)
(* gpu_graph(): construction, the run loop, mainloop ticks, window resize  *)
(* handling and the terminal-restore teardown.                             *)
(***************************************************************************)
EXTENDS Integers, Sequences, FiniteSets, TLC

VARIABLES
    \* ---- the layout planner, run on its own (specification SpecPlan) ----
    pPc,          \* "idle" | "loop" | "done"
    pLines,       \* stdscr.getmaxyx()[0] read by the call
    pCols,        \* stdscr.getmaxyx()[1] read by the call
    pN,           \* self.num_gpus
    pRows,        \* local rows of calculate_sizes
    pColumns,     \* local columns of calculate_sizes
    pIters,       \* iterations of the growth loop executed so far
    pSizes,       \* self.sizes after the call (None before)
    pWidth,       \* self.window_width after the call
    \* ---- the dashboard session (specification Spec) ----
    pc,           \* "start" | "run" | "returned" | "raised" | "hung" | "exited"
    mode,         \* terminal mode: "normal" | "dashboard"
    exc,          \* the exception in flight or that ended the session
    term,         \* <<lines, columns>> of the terminal (stdscr.getmaxyx())
    keys,         \* the key codes pending in the curses input queue
    num_gpus,     \* self.num_gpus
    sizes,        \* self.sizes: None, -1 or a sequence of geometries
    window_width, \* self.window_width
    redraw,       \* self.redraw
    cont,         \* self.cont
    windows,      \* self.windows: the geometry each window was created with
    val_utilizations, \* self.val_utilizations
    mem_utilizations, \* self.mem_utilizations
    planDims,     \* the terminal size read by the last calculate_sizes call
    ticks,        \* number of mainloop invocations so far
    log,          \* what the last mainloop invocation did
    \* ---- plot_line_chart, called on its own (specification SpecChart) ----
    cPc,          \* "idle" | "args" | "called" | "done"
    cSeries,      \* argument series
    cHeight,      \* argument height
    cMinimum,     \* argument minimum: <<>> for None, <<v>> for the value v
    cMaximum,     \* argument maximum, likewise
    cFormat,      \* argument format: "None" or the format string
    cOut,         \* what the call returned or raised
    cAgain,       \* what a second call with the same arguments returned
    \* ---- draw_memory_chart, called on its own (specification SpecBar) ----
    bPc,          \* "idle" | "args" | "drawn"
    bLines,       \* self.sizes[i]['nlines'] of the pane
    bUsage,       \* self.mem_utilizations[i]['gpu_usage']
    bTotal,       \* self.mem_utilizations[i]['gpu_total']
    bOut,         \* the rows of the sub-window after the call, or the error
    \* ---- the loop of run() and its timers (specification SpecRun) ----
    rPc,          \* position of the thread that called run()
    rInv,         \* the mainloop invocations in progress
    rCont,        \* self.cont
    rStarted,     \* number of mainloop invocations started so far
    rQuitAt       \* the invocation that reads the key q

planVars == <<pPc, pLines, pCols, pN, pRows, pColumns, pIters, pSizes, pWidth>>
sessVars == <<pc, mode, exc, term, keys, num_gpus, sizes, window_width, redraw,
              cont, windows, val_utilizations, mem_utilizations, planDims,
              ticks, log>>
chartVars == <<cPc, cSeries, cHeight, cMinimum, cMaximum, cFormat, cOut,
               cAgain>>
barVars == <<bPc, bLines, bUsage, bTotal, bOut>>
runVars == <<rPc, rInv, rCont, rStarted, rQuitAt>>
pureVars == <<chartVars, barVars, runVars>>
vars == <<planVars, sessVars, pureVars>>

\* self.sizes is None before the first plan, -1 when the layout is infeasible,
\* and otherwise the list of pane geometries.
SizesNone == [tag |-> "None", panes |-> <<>>]
SizesMinus1 == [tag |-> "-1", panes |-> <<>>]
SizesList(geo) == [tag |-> "list", panes |-> geo]

(***************************************************************************)
(* Bounds of the model                                                     *)
(***************************************************************************)
MaxLines == 54
MaxCols == 161
MaxPanes == 5
MaxIters == 8

(***************************************************************************)
(* Program constants                                                       *)
(***************************************************************************)
min_height == 10
min_width == 18

Abs(x) == IF x < 0 THEN -x ELSE x
Max(a, b) == IF a > b THEN a ELSE b

(***************************************************************************)
(* calculate_sizes: one iteration of the growth loop (lines 358-388).      *)
(* h and w are the locals after `w -= 1; h -= 2`.  floor(h / rows) is      *)
(* floor division; diff < max_edge / 5 is 5 * diff < max_edge.             *)
(***************************************************************************)
GrowStepCutShortEdge(rows, columns, h, w, n) ==
    LET cut_height == h \div rows
        cut_width == w \div columns
        diff_height_width == Abs(cut_width - cut_height)
        max_edge == Max(cut_width, cut_height)
        remain_col == (rows * (columns + 1)) - n
        remain_row == ((rows + 1) * columns) - n
    IN  IF 5 * diff_height_width < max_edge
        THEN IF remain_row <= 0 THEN <<rows + 1, columns>>
             ELSE IF remain_col <= 0 THEN <<rows, columns + 1>>
             ELSE IF remain_row < remain_col THEN <<rows + 1, columns>>
             ELSE IF remain_col < remain_row THEN <<rows, columns + 1>>
             ELSE <<rows, columns>>
        ELSE IF cut_width < cut_height THEN <<rows, columns + 1>>
             ELSE <<rows + 1, columns>>

GrowStep(rows, columns, h, w, n) ==
    LET cut_height == h \div rows
        cut_width == w \div columns
        diff_height_width == Abs(cut_width - cut_height)
        max_edge == Max(cut_width, cut_height)
        partitions_if_add_col == rows * (columns + 1)
        partitions_if_add_row == (rows + 1) * columns
        remain_col == partitions_if_add_col - n
        remain_row == partitions_if_add_row - n
    IN  IF 5 * diff_height_width < max_edge
        THEN IF remain_row <= 0 THEN <<rows + 1, columns>>
             ELSE IF remain_col <= 0 THEN <<rows, columns + 1>>
             ELSE IF remain_row < remain_col THEN <<rows + 1, columns>>
             ELSE IF remain_col < remain_row THEN <<rows, columns + 1>>
             ELSE <<rows, columns>>          \* no branch taken
        ELSE IF cut_width > cut_height THEN <<rows, columns + 1>>
             ELSE <<rows + 1, columns>>

(***************************************************************************)
(* calculate_sizes after the loop (lines 390-412): the minimum-size check  *)
(* and the geometry list.  Returns the new self.sizes and                  *)
(* self.window_width (left as it was when the layout is infeasible).       *)
(***************************************************************************)
PaneAtColumnMajor(i, columns, width, height) ==
    LET col == i \div columns
        row == i % columns
        x_pad == IF col > 0 THEN 1 ELSE 0
        y_pad == IF row > 0 THEN 1 ELSE 0
    IN  [nlines |-> height, ncols |-> width,
         begin_y |-> (row * height) + y_pad,
         begin_x |-> (col * width) + x_pad]

\* as PaneAt, with the padding taken off the offset instead of added to it
PaneAtPadInwards(i, columns, width, height) ==
    LET col == i % columns
        row == i \div columns
        x_pad == IF col > 0 THEN 1 ELSE 0
        y_pad == IF row > 0 THEN 1 ELSE 0
    IN  [nlines |-> height, ncols |-> width,
         begin_y |-> (row * height) - y_pad,
         begin_x |-> (col * width) - x_pad]

PaneAt(i, columns, width, height) ==
    LET col == i % columns
        row == i \div columns
        x_pad == IF col > 0 THEN 1 ELSE 0
        y_pad == IF row > 0 THEN 1 ELSE 0
    IN  [nlines |-> height, ncols |-> width,
         begin_y |-> (row * height) + y_pad,
         begin_x |-> (col * width) + x_pad]

LayoutNoMinimum(rows, columns, h, w, n, old_width) ==
    LET width == (w \div columns) - 1
        height == (h \div rows) - 1
        geo == [k \in 1..n |-> PaneAt(k - 1, columns, width, height)]
    IN  IF width < min_width /\ height < min_height
        THEN [sizes |-> SizesMinus1, window_width |-> old_width]
        ELSE [sizes |-> SizesList(geo),
              window_width |-> geo[n].begin_x + width + 1]

Layout(rows, columns, h, w, n, old_width) ==
    LET width == (w \div columns) - 1
        height == (h \div rows) - 1
        geo == [k \in 1..n |-> PaneAt(k - 1, columns, width, height)]
    IN  IF width < min_width \/ height < min_height
        THEN [sizes |-> SizesMinus1, window_width |-> old_width]
        ELSE [sizes |-> SizesList(geo),
              window_width |-> geo[n].begin_x + width + 1]

(***************************************************************************)
(* The planner on its own: calculate_sizes stepped through its growth loop *)
(* for every terminal size and pane count within the bounds.               *)
(***************************************************************************)
PlanInit ==
    /\ pPc = "idle"
    /\ pLines = 0 /\ pCols = 0 /\ pN = 0
    /\ pRows = 1 /\ pColumns = 1 /\ pIters = 0
    /\ pSizes = SizesNone /\ pWidth = 0

\* lines 344-355: read the terminal size, start from a 1 x 1 grid
PlanEnter ==
    /\ pPc = "idle"
    /\ \E l \in 1..MaxLines, c \in 1..MaxCols, n \in 1..MaxPanes :
          /\ pLines' = l /\ pCols' = c /\ pN' = n
    /\ pPc' = "loop"
    /\ UNCHANGED <<pRows, pColumns, pIters, pSizes, pWidth>>

\* lines 357-388: one iteration of `while partitions < self.num_gpus`
PlanIter ==
    /\ pPc = "loop"
    /\ pRows * pColumns < pN
    /\ pIters < MaxIters
    /\ LET nx == GrowStep(pRows, pColumns, pLines - 2, pCols - 1, pN)
       IN  pRows' = nx[1] /\ pColumns' = nx[2]
    /\ pIters' = pIters + 1
    /\ UNCHANGED <<pPc, pLines, pCols, pN, pSizes, pWidth>>

\* lines 390-412: the loop has ended
PlanFinish ==
    /\ pPc = "loop"
    /\ pRows * pColumns >= pN
    /\ LET r == Layout(pRows, pColumns, pLines - 2, pCols - 1, pN, pWidth)
       IN  pSizes' = r.sizes /\ pWidth' = r.window_width
    /\ pPc' = "done"
    /\ UNCHANGED <<pLines, pCols, pN, pRows, pColumns, pIters>>

(***************************************************************************)
(* The session: bounds and the environment's inputs                        *)
(***************************************************************************)
MaxGpus == 2
MaxTicks == 3
MaxQuietTicks == 4

KEY_Q == "q"
KEY_RESIZE == "KEY_RESIZE"
KEY_OTHER == "x"

\* Terminal sizes <<lines, columns>> the terminal takes: comfortable, narrow
\* (plot capacity 2), too small for two panes, too low for any pane, too
\* narrow for the notice, and too low for the notice.
TermSizes == {<<24, 80>>, <<24, 20>>, <<24, 31>>, <<10, 40>>, <<24, 19>>,
              <<2, 80>>}

\* safe_float_cast yields float('nan') for a field that is no number.
NaN == -1

\* One line of nvidia-smi output as parsed by get_gpus.  load is kept in
\* hundredths (the parsed percentage); memory in MiB.
\* an idle GPU, a busy GPU, and a GPU whose utilization is not a number.
Samples == {[load |-> 0, memory_used |-> 0, memory_total |-> 100],
            [load |-> 100, memory_used |-> 50, memory_total |-> 100],
            [load |-> NaN, memory_used |-> 0, memory_total |-> 100]}
\* get_gpus: one sample per GPU; [] when nvidia-smi is missing.
Snapshots == UNION {[1..k -> Samples] : k \in 0..MaxGpus}

\* read_keys (lines 144-156) drains the queue; mainloop only asks whether a
\* key code is among the keys read, so the queue is kept as the set of key
\* codes pending.
read_keys(queue) == queue

\* self.gpus[i]['load'] * 100, exact over the loads above
Percent(load) == load

\* What one mainloop invocation saw and did: the drained input held the quit
\* key / a resize event; self.sizes was -1 on entry; the invocation before it
\* began with sizes = -1 and re-planned successfully; calls of
\* calculate_sizes, get_gpus and newwin; the notice was drawn; panes drawn;
\* physical refreshes (stdscr.refresh, doupdate).  Two entries look further
\* back: afterResize - the invocation before it handled a resize event and
\* planned a layout; observed - for each snapshot get_gpus returned to
\* mainloop since the panes were last rebuilt, oldest first, the loads of the
\* GPUs that have a pane.  count is the number of entries of the snapshot
\* this invocation pulled.  keyFlush: the getch of read_keys refreshed stdscr
\* (curses does so when stdscr was modified since its last refresh); stale:
\* stdscr is modified and not refreshed when the invocation ends (it is so
\* before the first one: nothing was refreshed since initscr).
NoLog == [q |-> FALSE, resize |-> FALSE, infeasible |-> FALSE,
          afterRecovery |-> FALSE, afterResize |-> FALSE,
          planned |-> 0, pulled |-> 0, created |-> 0,
          notice |-> FALSE, panes |-> 0, refreshes |-> 0,
          count |-> 0, observed |-> <<>>,
          keyFlush |-> FALSE, stale |-> TRUE,
          memory |-> <<>>]

\* the record of an invocation on entry, after read_keys returned ks
Entered(self, ks) ==
    [self EXCEPT !.log =
        [NoLog EXCEPT !.q = KEY_Q \in ks,
                      !.resize = KEY_RESIZE \in ks,
                      !.infeasible = (self.sizes = SizesMinus1),
                      !.afterRecovery = /\ self.log.infeasible
                                        /\ self.log.planned > 0
                                        /\ self.sizes.tag = "list",
                      !.afterResize = /\ self.log.resize
                                      /\ self.log.planned > 0
                                      /\ self.sizes.tag = "list",
                      !.observed = self.log.observed,
                      \* a resize event makes curses resize, and so modify,
                      \* stdscr before the next getch of the same read_keys
                      !.keyFlush = self.log.stale \/ KEY_RESIZE \in ks,
                      !.stale = FALSE]]

(***************************************************************************)
(* calculate_sizes as called by the session (lines 331-412).  The growth   *)
(* loop is run to its end; an iteration that changes neither rows nor      *)
(* columns repeats for ever, and the call does not return.                 *)
(***************************************************************************)
RECURSIVE Grow(_, _, _, _, _)
Grow(rows, columns, h, w, n) ==
    IF rows * columns >= n THEN [rows |-> rows, columns |-> columns, ends |-> TRUE]
    ELSE LET nx == GrowStep(rows, columns, h, w, n)
         IN  IF nx = <<rows, columns>>
             THEN [rows |-> rows, columns |-> columns, ends |-> FALSE]
             ELSE Grow(nx[1], nx[2], h, w, n)

calculate_sizes_keeps_layout(self, maxyx) ==
    LET h == maxyx[1] - 2
        w == maxyx[2] - 1
        g == Grow(1, 1, h, w, self.num_gpus)
        r == Layout(g.rows, g.columns, h, w, self.num_gpus, self.window_width)
    IN  IF self.sizes.tag = "list"
        THEN [returns |-> TRUE, sizes |-> self.sizes,
              window_width |-> self.window_width]
        ELSE [returns |-> g.ends, sizes |-> r.sizes,
              window_width |-> r.window_width]

calculate_sizes(self, maxyx) ==
    LET h == maxyx[1] - 2
        w == maxyx[2] - 1
        g == Grow(1, 1, h, w, self.num_gpus)
        r == Layout(g.rows, g.columns, h, w, self.num_gpus, self.window_width)
    IN  [returns |-> g.ends, sizes |-> r.sizes, window_width |-> r.window_width]

(***************************************************************************)
(* curses: window.addstr(y, x, str) on a window of h lines by w columns    *)
(* raises curses.error when (y, x) is outside the window or the text runs  *)
(* into the window's last cell.                                            *)
(***************************************************************************)
AddstrOk(h, w, y, x, len) ==
    /\ 0 <= y /\ y < h /\ 0 <= x /\ x < w
    /\ (y * w) + x + len < h * w

\* int(v / 2 - k): Python's int() truncates towards zero
IntHalfMinus(v, k) ==
    IF v >= 2 * k THEN (v \div 2) - k ELSE -(((2 * k) - v) \div 2)

(***************************************************************************)
(* handle_window_resize (lines 158-179)                                    *)
(***************************************************************************)
handle_window_resize(self, maxyx) ==
    LET r == calculate_sizes(self, maxyx)
        \* stdscr.clear() modifies stdscr
        planned == [self EXCEPT !.sizes = r.sizes,
                                !.window_width = r.window_width,
                                !.log.planned = @ + 1,
                                !.log.stale = TRUE]
        h == maxyx[1]
        w == maxyx[2]
        start_y == IntHalfMinus(w, 11)
        start_x == IntHalfMinus(h, 2)
        error_string == <<20, 21, 21>>      \* lengths of the three lines
    IN  IF ~r.returns THEN [self EXCEPT !.hung = TRUE, !.log.planned = @ + 1,
                                            !.log.stale = TRUE]
        ELSE IF r.sizes = SizesMinus1
        THEN IF ~(w > 25)
             THEN [planned EXCEPT !.exc = "AssertionError: Terminal window is too small."]
             ELSE IF \E i \in 1..3 :
                        ~AddstrOk(h, w, start_x + (i - 1), start_y, error_string[i])
             THEN [planned EXCEPT !.exc = "curses.error"]
             ELSE [planned EXCEPT !.redraw = FALSE, !.log.notice = TRUE,
                                  !.log.refreshes = @ + 1,
                                  !.log.stale = FALSE]
        ELSE [planned EXCEPT !.redraw = TRUE]

(***************************************************************************)
(* draw_bottom_bar (lines 181-200) and redraw_windows (lines 202-223)      *)
(***************************************************************************)
draw_bottom_bar_ok(self, maxyx) ==
    LET h == maxyx[1] - 1
        w == self.window_width
    IN  /\ AddstrOk(maxyx[1], maxyx[2], h, 0, 2)
        /\ AddstrOk(maxyx[1], maxyx[2], h, 2, 5)
        /\ AddstrOk(maxyx[1], maxyx[2], h, w - 10, 9)
        /\ w - 17 >= 0
        /\ AddstrOk(maxyx[1], maxyx[2], h, 7, w - 17)

redraw_windows_empty_history(self) ==
    [self EXCEPT !.windows = self.sizes.panes,
                 !.val_utilizations = [i \in 1..Len(self.sizes.panes) |-> <<>>],
                 !.log.created = @ + Len(self.sizes.panes),
                 !.log.observed = <<>>]

redraw_windows_keeps_history(self) ==
    [self EXCEPT !.windows = self.sizes.panes,
                 !.val_utilizations =
                     IF Len(@) = Len(self.sizes.panes) THEN @
                     ELSE [i \in 1..Len(self.sizes.panes) |-> <<0, 0>>],
                 !.log.created = @ + Len(self.sizes.panes),
                 !.log.observed = <<>>]

\* as redraw_windows, but windows that exist already are kept
redraw_windows_keeps_windows(self) ==
    [self EXCEPT !.windows = IF @ # <<>> THEN @ ELSE self.sizes.panes,
                 !.val_utilizations = [i \in 1..Len(self.sizes.panes) |-> <<0, 0>>],
                 !.log.created = @ + Len(self.sizes.panes),
                 !.log.observed = <<>>]

redraw_windows(self) ==
    [self EXCEPT !.windows = self.sizes.panes,
                 !.val_utilizations = [i \in 1..Len(self.sizes.panes) |-> <<0, 0>>],
                 !.log.created = @ + Len(self.sizes.panes),
                 !.log.observed = <<>>]

(***************************************************************************)
(* draw_utilization_plot (lines 225-263): the history of pane i loses its  *)
(* oldest entry when it is longer than the plot is wide; plot_line_chart   *)
(* raises on NaN, and a row that does not fit the sub-window raises        *)
(* ValueError.                                                             *)
(***************************************************************************)
draw_utilization_plot_keeps_all(self, i) ==
    LET h == self.sizes.panes[i].nlines - 4
        w == self.sizes.panes[i].ncols - 9
        series == self.val_utilizations[i]
    IN  IF \E k \in 1..Len(series) : series[k] = NaN
        THEN [self EXCEPT !.exc = "ValueError"]
        ELSE IF \E k \in 1..Len(series) : series[k] < 0 \/ series[k] > 100
        THEN [self EXCEPT !.exc = "AssertionError"]
        ELSE IF ~AddstrOk(h, w, h - 1, 6, Len(series))
        THEN [self EXCEPT !.exc = "ValueError"]
        ELSE self

draw_utilization_plot_drops_newest(self, i) ==
    LET h == self.sizes.panes[i].nlines - 4
        w == self.sizes.panes[i].ncols - 9
        before == self.val_utilizations[i]
        series == IF Len(before) > w - 7
                  THEN SubSeq(before, 1, Len(before) - 1) ELSE before
        popped == [self EXCEPT !.val_utilizations[i] = series]
    IN  IF \E k \in 1..Len(series) : series[k] = NaN
        THEN [popped EXCEPT !.exc = "ValueError"]
        ELSE IF \E k \in 1..Len(series) : series[k] < 0 \/ series[k] > 100
        THEN [popped EXCEPT !.exc = "AssertionError"]
        ELSE IF ~AddstrOk(h, w, h - 1, 6, Len(series))
        THEN [popped EXCEPT !.exc = "ValueError"]
        ELSE popped

draw_utilization_plot(self, i) ==
    LET h == self.sizes.panes[i].nlines - 4
        w == self.sizes.panes[i].ncols - 9
        before == self.val_utilizations[i]
        series == IF Len(before) > w - 7 THEN Tail(before) ELSE before
        popped == [self EXCEPT !.val_utilizations[i] = series]
    IN  IF \E k \in 1..Len(series) : series[k] = NaN
        THEN [popped EXCEPT !.exc = "ValueError"]
        ELSE IF \E k \in 1..Len(series) : series[k] < 0 \/ series[k] > 100
        THEN [popped EXCEPT !.exc = "AssertionError"]
        ELSE IF ~AddstrOk(h, w, h - 1, 6, Len(series))
        THEN [popped EXCEPT !.exc = "ValueError"]
        ELSE popped

(***************************************************************************)
(* draw_memory_chart (lines 265-329): what the rows of the 5 columns wide  *)
(* sub-window of h lines hold after the call.  Rows 0..h-3 are the bar,    *)
(* row h-2 takes the used-memory value, row h-1 is never written.          *)
(***************************************************************************)
ROW_BLANK == "     "          \* ' ' * w
ROW_EMPTY == "_____"          \* '_' * w
ROW_FULL == "full blocks"     \* U+2588 * w
ROW_HALF == "half blocks"     \* U+2584 * w
ROW_VALUE == "value"          \* '{:^5.0f}'.format(gpu_usage)
ROW_UNTOUCHED == "untouched"

\* as draw_memory_chart_rows, but the loop goes on after an '_' row
draw_memory_chart_rows_no_break(h, gpu_usage, gpu_total) ==
    IF gpu_total = 0 THEN [error |-> "ZeroDivisionError", rows |-> <<>>]
    ELSE [error |-> "none",
          rows |-> [r \in 1..h |->
             IF r - 1 = h - 1 THEN ROW_UNTOUCHED
             ELSE IF r - 1 = h - 2 THEN ROW_VALUE
             ELSE IF gpu_usage = 0 THEN ROW_EMPTY
             ELSE ROW_BLANK]]

draw_memory_chart_rows(h, gpu_usage, gpu_total) ==
    LET \* floor(gpu_usage / gpu_total * (h + h - 2))
        blocks == IF gpu_total > 0
                  THEN (gpu_usage * ((h + h) - 2)) \div gpu_total
                  ELSE ((-gpu_usage) * ((h + h) - 2)) \div (-gpu_total)
        full_rows == blocks \div 2
        half_row == blocks % 2 # 0
        \* the loop of lines 311-327 visits row h-3 first: `below` rows lie
        \* under row y
        Bar(y) ==
            LET below == (h - 3) - y
            IN  IF gpu_usage = 0
                THEN IF below = 0 THEN ROW_EMPTY ELSE ROW_BLANK
                \* a negative full_rows is counted down and never gets to 0
                ELSE IF full_rows < 0 THEN ROW_FULL
                ELSE IF below < full_rows THEN ROW_FULL
                ELSE IF below = full_rows /\ half_row THEN ROW_HALF
                ELSE ROW_BLANK
    IN  IF gpu_total = 0 THEN [error |-> "ZeroDivisionError", rows |-> <<>>]
        ELSE [error |-> "none",
              rows |-> [r \in 1..h |->
                 IF r - 1 = h - 1 THEN ROW_UNTOUCHED
                 ELSE IF r - 1 = h - 2 THEN ROW_VALUE
                 ELSE Bar(r - 1)]]

\* draw_memory_chart in the session: only its failure is of interest there
draw_memory_chart(self, i) ==
    LET drawn == draw_memory_chart_rows(self.sizes.panes[i].nlines - 2,
                                        self.mem_utilizations[i].gpu_usage,
                                        self.mem_utilizations[i].gpu_total)
    IN  IF drawn.error # "none" THEN [self EXCEPT !.exc = drawn.error]
        ELSE [self EXCEPT !.log.panes = @ + 1]

(***************************************************************************)
(* mainloop (lines 114-142)                                                *)
(***************************************************************************)
\* as PlotFrom, with a doupdate() after every pane
RECURSIVE PlotFrom_updates_each_pane(_, _, _)
PlotFrom_updates_each_pane(self, gpus, i) ==
    IF i > self.num_gpus THEN self
    ELSE IF i > Len(gpus) THEN [self EXCEPT !.exc = "IndexError"]
    ELSE LET sampled == [self EXCEPT
                 !.val_utilizations[i] = Append(@, Percent(gpus[i].load)),
                 !.mem_utilizations[i].gpu_usage = gpus[i].memory_used]
             plotted == draw_utilization_plot(sampled, i)
             charted == IF plotted.exc = "none"
                        THEN draw_memory_chart(plotted, i) ELSE plotted
         IN  IF charted.exc = "none"
             THEN PlotFrom_updates_each_pane(
                      [charted EXCEPT !.log.refreshes = @ + 1], gpus, i + 1)
             ELSE charted

\* the body of `for i in range(self.num_gpus)`, from pane i on (1-based)
RECURSIVE PlotFrom(_, _, _)
PlotFrom(self, gpus, i) ==
    IF i > self.num_gpus THEN self
    ELSE IF i > Len(gpus) THEN [self EXCEPT !.exc = "IndexError"]
    ELSE LET sampled == [self EXCEPT
                 !.val_utilizations[i] = Append(@, Percent(gpus[i].load)),
                 !.mem_utilizations[i].gpu_usage = gpus[i].memory_used]
             plotted == draw_utilization_plot(sampled, i)
             charted == IF plotted.exc = "none"
                        THEN draw_memory_chart(plotted, i) ELSE plotted
         IN  IF charted.exc = "none" THEN PlotFrom(charted, gpus, i + 1)
             ELSE charted

\* lines 126-142
Render(self, gpus, maxyx) ==
    LET redrawn ==
            IF self.redraw
            THEN IF draw_bottom_bar_ok(self, maxyx)
                 THEN [redraw_windows(self) EXCEPT !.redraw = FALSE]
                 ELSE [self EXCEPT !.exc = "curses.error"]
            ELSE self
        seen == IF Len(gpus) < self.num_gpus THEN Len(gpus) ELSE self.num_gpus
        pulled == [redrawn EXCEPT
                      !.log.pulled = @ + 1,
                      !.log.count = Len(gpus),
                      !.log.observed =
                          Append(@, [i \in 1..seen |-> gpus[i].load]),
                      !.log.memory =
                          [i \in 1..seen |->
                              [memory_used |-> gpus[i].memory_used,
                               memory_total |-> gpus[i].memory_total]]]
        plotted == PlotFrom(pulled, gpus, 1)
    IN  IF redrawn.exc # "none" THEN redrawn
        ELSE IF plotted.exc # "none" THEN plotted
        ELSE [plotted EXCEPT !.log.refreshes = @ + 1]

mainloop_resize_first(self, ks, gpus, maxyx) ==
    LET entered == Entered(self, ks)
    IN  IF KEY_RESIZE \in ks \/ self.sizes = SizesMinus1
        THEN handle_window_resize(entered, maxyx)
        ELSE IF KEY_Q \in ks THEN [entered EXCEPT !.cont = FALSE]
        ELSE Render(entered, gpus, maxyx)

mainloop_replan_on_resize_only(self, ks, gpus, maxyx) ==
    LET entered == Entered(self, ks)
    IN  IF KEY_Q \in ks THEN [entered EXCEPT !.cont = FALSE]
        ELSE IF KEY_RESIZE \in ks
        THEN handle_window_resize(entered, maxyx)
        ELSE IF self.sizes = SizesMinus1 THEN entered
        ELSE Render(entered, gpus, maxyx)

mainloop(self, ks, gpus, maxyx) ==
    LET entered == Entered(self, ks)
    IN  IF KEY_Q \in ks THEN [entered EXCEPT !.cont = FALSE]
        ELSE IF KEY_RESIZE \in ks \/ self.sizes = SizesMinus1
        THEN handle_window_resize(entered, maxyx)
        ELSE Render(entered, gpus, maxyx)

(***************************************************************************)
(* GpuGraph.__init__ (lines 85-103)                                        *)
(***************************************************************************)
GpuGraph_init_accepts_empty(gpus, maxyx) ==
    LET fresh == [num_gpus |-> Len(gpus), sizes |-> SizesNone, window_width |-> 0,
                  redraw |-> FALSE, cont |-> FALSE, windows |-> <<>>,
                  val_utilizations |-> <<>>,
                  mem_utilizations |->
                      [i \in 1..Len(gpus) |->
                          [gpu_total |-> gpus[i].memory_total,
                           gpu_usage |-> gpus[i].memory_used]],
                  exc |-> "none", hung |-> FALSE, log |-> NoLog]
        r == calculate_sizes(fresh, maxyx)
    IN  IF fresh.num_gpus = 0
        THEN [fresh EXCEPT !.sizes = SizesList(<<>>), !.redraw = TRUE,
                           !.cont = TRUE]
        ELSE IF ~r.returns THEN [fresh EXCEPT !.hung = TRUE]
        ELSE [fresh EXCEPT !.sizes = r.sizes, !.window_width = r.window_width,
                           !.redraw = TRUE, !.cont = TRUE]

GpuGraph_init(gpus, maxyx) ==
    LET fresh == [num_gpus |-> Len(gpus), sizes |-> SizesNone, window_width |-> 0,
                  redraw |-> FALSE, cont |-> FALSE, windows |-> <<>>,
                  val_utilizations |-> <<>>,
                  mem_utilizations |->
                      [i \in 1..Len(gpus) |->
                          [gpu_total |-> gpus[i].memory_total,
                           gpu_usage |-> gpus[i].memory_used]],
                  exc |-> "none", hung |-> FALSE, log |-> NoLog]
        r == calculate_sizes(fresh, maxyx)
    IN  IF ~(fresh.num_gpus > 0)
        THEN [fresh EXCEPT !.exc = "AssertionError: No GPUs found"]
        ELSE IF ~r.returns THEN [fresh EXCEPT !.hung = TRUE]
        ELSE [fresh EXCEPT !.sizes = r.sizes, !.window_width = r.window_width,
                           !.redraw = TRUE, !.cont = TRUE]

(***************************************************************************)
(* gpu_graph (lines 505-544): the terminal mode after the function is      *)
(* left with exception e in flight ("none": run() returned).  The finally  *)
(* clause restores the terminal whatever the exception.                    *)
(***************************************************************************)
gpu_graph_except_only(e, m) ==
    IF e \in {"none", "KeyboardInterrupt"} THEN "normal" ELSE m

gpu_graph_finally(e, m) == "normal"

(***************************************************************************)
(* The session as a state machine                                          *)
(***************************************************************************)
Self == [num_gpus |-> num_gpus, sizes |-> sizes, window_width |-> window_width,
         redraw |-> redraw, cont |-> cont, windows |-> windows,
         val_utilizations |-> val_utilizations,
         mem_utilizations |-> mem_utilizations,
         exc |-> "none", hung |-> FALSE, log |-> log]

\* the object's fields and the control position after a call returned `r`
Becomes(r) ==
    /\ num_gpus' = r.num_gpus /\ sizes' = r.sizes
    /\ window_width' = r.window_width /\ redraw' = r.redraw /\ cont' = r.cont
    /\ windows' = r.windows /\ val_utilizations' = r.val_utilizations
    /\ mem_utilizations' = r.mem_utilizations /\ log' = r.log
    /\ exc' = r.exc
    /\ pc' = IF r.hung THEN "hung" ELSE IF r.exc # "none" THEN "raised" ELSE "run"

SessInit ==
    /\ pc = "start" /\ mode = "normal" /\ exc = "none"
    /\ term \in TermSizes
    /\ keys = {} /\ num_gpus = 0 /\ sizes = SizesNone /\ window_width = 0
    /\ redraw = FALSE /\ cont = FALSE /\ windows = <<>>
    /\ val_utilizations = <<>> /\ mem_utilizations = <<>>
    /\ planDims = <<0, 0>> /\ ticks = 0 /\ log = NoLog

\* gpu_graph lines 509-526: curses is initialised (initscr, noecho, cbreak,
\* keypad, curs_set).  The colour set-up either succeeds, or raises
\* curses.error, which is caught (colourless), or - init_pair on a terminal
\* with fewer colours than the pair asks for - raises ValueError, which is not.
InitCurses ==
    /\ pc = "start"
    /\ mode' = "dashboard"
    /\ \E colours \in {"ok", "curses.error", "ValueError"} :
          IF colours = "ValueError"
          THEN pc' = "raised" /\ exc' = "ValueError"
          ELSE pc' = "init" /\ exc' = exc
    /\ UNCHANGED <<term, keys, num_gpus, sizes, window_width, redraw, cont,
                   windows, val_utilizations, mem_utilizations, planDims, ticks,
                   log>>

\* gpu_graph lines 528-531: GpuGraph(stdscr, colors, interval)
ConstructFrom(snapshots) ==
    /\ pc = "init"
    /\ \E gpus \in snapshots : Becomes(GpuGraph_init(gpus, term))
    /\ planDims' = IF num_gpus' > 0 THEN term ELSE planDims
    /\ UNCHANGED <<mode, term, keys, ticks>>

Construct == ConstructFrom(Snapshots)

\* run (lines 105-112): mainloop once, then again while self.cont; at most
\* `limit` invocations are followed
TickFrom(limit, snapshots) ==
    /\ pc = "run" /\ (ticks = 0 \/ cont)
    /\ ticks < limit
    /\ LET ks == read_keys(keys)
           \* get_gpus is called on the rendering path only
           pulls == KEY_Q \notin ks /\ KEY_RESIZE \notin ks
                    /\ sizes # SizesMinus1
       IN  \E gpus \in (IF pulls THEN snapshots ELSE {<<>>}) :
              Becomes(mainloop(Self, ks, gpus, term))
    /\ keys' = {}
    /\ ticks' = ticks + 1
    /\ planDims' = IF log'.planned > 0 THEN term ELSE planDims
    /\ UNCHANGED <<mode, term>>

TickWithin(limit) == TickFrom(limit, Snapshots)

Tick == TickWithin(MaxTicks)

\* run returns once self.cont is False
RunReturns ==
    /\ pc = "run" /\ ticks > 0 /\ ~cont
    /\ pc' = "returned"
    /\ UNCHANGED <<mode, exc, term, keys, num_gpus, sizes, window_width, redraw,
                   cont, windows, val_utilizations, mem_utilizations, planDims,
                   ticks, log>>

\* Ctrl-C while the session is being built or is running
Interrupt ==
    /\ pc \in {"init", "run", "hung"}
    /\ pc' = "raised" /\ exc' = "KeyboardInterrupt"
    /\ UNCHANGED <<mode, term, keys, num_gpus, sizes, window_width, redraw, cont,
                   windows, val_utilizations, mem_utilizations, planDims, ticks,
                   log>>

\* gpu_graph lines 533-544: the except and finally clauses; the process
\* leaves gpu_graph
Leave ==
    /\ pc \in {"returned", "raised"}
    /\ mode' = gpu_graph_finally(exc, mode)
    /\ pc' = "exited"
    /\ UNCHANGED <<exc, term, keys, num_gpus, sizes, window_width, redraw, cont,
                   windows, val_utilizations, mem_utilizations, planDims, ticks,
                   log>>

\* the environment: a key is pressed
KeyPress ==
    /\ pc \in {"init", "run"}
    /\ \E k \in {KEY_Q, KEY_OTHER} : keys' = keys \cup {k}
    /\ UNCHANGED <<pc, mode, exc, term, num_gpus, sizes, window_width, redraw,
                   cont, windows, val_utilizations, mem_utilizations, planDims,
                   ticks, log>>

\* the environment: the terminal is resized; curses queues KEY_RESIZE
Resize ==
    /\ pc \in {"init", "run"}
    /\ \E d \in TermSizes \ {term} : term' = d
    /\ keys' = keys \cup {KEY_RESIZE}
    /\ UNCHANGED <<pc, mode, exc, num_gpus, sizes, window_width, redraw, cont,
                   windows, val_utilizations, mem_utilizations, planDims, ticks,
                   log>>

(***************************************************************************)
(* plot_line_chart (lines 414-502).  Numbers are integers here; the        *)
(* quotients the code forms in floating point are kept as fractions and    *)
(* rounded as Python's round() and '{:.0f}' round: to the nearest integer, *)
(* a tie to the even one.                                                  *)
(***************************************************************************)
\* round(num / den) for den > 0
RoundHalfEven(num, den) ==
    LET q == num \div den
        r == num % den
    IN  IF 2 * r < den THEN q
        ELSE IF 2 * r > den THEN q + 1
        ELSE IF q % 2 = 0 THEN q ELSE q + 1

\* len(str(v)) for an int v
StrLen(v) ==
    LET a == Abs(v)
        digits == IF a < 10 THEN 1 ELSE IF a < 100 THEN 2
                  ELSE IF a < 1000 THEN 3 ELSE 4
    IN  IF v < 0 THEN digits + 1 ELSE digits

\* min(series), max(series)
SeriesMin(series) ==
    CHOOSE v \in {series[k] : k \in 1..Len(series)} :
        \A k \in 1..Len(series) : v <= series[k]
SeriesMax(series) ==
    CHOOSE v \in {series[k] : k \in 1..Len(series)} :
        \A k \in 1..Len(series) : v >= series[k]

\* the glyphs of the chart
CROSS == "cross"            \* the axis tick at y = min and at the y-intercept
TEE == "tee"                \* any other axis tick
BLANK == " "
FLAT == "flat"              \* horizontal line
VERTICAL == "vertical"
FROM_LEFT_DOWN == "left-down"   \* end cap at y_prev when the line descends
FROM_LEFT_UP == "left-up"       \* end cap at y_prev when the line rises
DOWN_TO_RIGHT == "down-right"   \* end cap at y_curr when the line descends
UP_TO_RIGHT == "up-right"       \* end cap at y_curr when the line rises

\* the format argument: None, or the one draw_utilization_plot passes
FORMAT_NONE == "None"
FORMAT_PERCENT == "{:>3.0f}% "

\* lines 454-459.  ratio is the fraction ratio.num / ratio.den; dividing by a
\* ratio of 0 raises ZeroDivisionError before this is reached.
get_row(val, height, ratio) ==
    (height - 1) - RoundHalfEven(val * ratio.den, ratio.num)

\* a list index as Python resolves it: negative indices count from the end
ListIndex(y, height) == IF y < 0 THEN y + height ELSE y

\* as Segment, without the vertical lines between the end caps
Segment_caps_only(y_prev, y_curr, height) ==
    LET lo == IF y_prev < y_curr THEN y_prev ELSE y_curr
        hi == IF y_prev < y_curr THEN y_curr ELSE y_prev
    IN  [ok |-> ~(lo < -height \/ hi > height - 1),
         cells |-> [r \in 0..(height - 1) |->
                IF y_prev = y_curr
                THEN IF r = ListIndex(y_curr, height) THEN FLAT ELSE BLANK
                ELSE IF r = ListIndex(y_curr, height)
                THEN IF y_prev < y_curr THEN DOWN_TO_RIGHT ELSE UP_TO_RIGHT
                ELSE IF r = ListIndex(y_prev, height)
                THEN IF y_prev < y_curr THEN FROM_LEFT_DOWN ELSE FROM_LEFT_UP
                ELSE BLANK]]

\* lines 479-497: the cells of plot column i (a function of the row, 0 at
\* the top) after the segment from y_prev to y_curr was drawn; not ok
\* (IndexError) when a row lies outside the list
Segment(y_prev, y_curr, height) ==
    LET lo == IF y_prev < y_curr THEN y_prev ELSE y_curr
        hi == IF y_prev < y_curr THEN y_curr ELSE y_prev
    IN  [ok |-> ~(lo < -height \/ hi > height - 1),
         cells |-> [r \in 0..(height - 1) |->
                IF y_prev = y_curr
                THEN IF r = ListIndex(y_curr, height) THEN FLAT ELSE BLANK
                ELSE IF r = ListIndex(y_curr, height)
                THEN IF y_prev < y_curr THEN DOWN_TO_RIGHT ELSE UP_TO_RIGHT
                ELSE IF r = ListIndex(y_prev, height)
                THEN IF y_prev < y_curr THEN FROM_LEFT_DOWN ELSE FROM_LEFT_UP
                ELSE IF \E y \in (lo + 1)..(hi - 1) : r = ListIndex(y, height)
                THEN VERTICAL
                ELSE BLANK]]

Raised(e) == [error |-> e, rows |-> <<>>]

\* lines 451-502, once minimum and maximum are settled.  A row of the result
\* is kept as: the number its label shows and whether it shows a minus sign,
\* the length of the label text, the axis tick, and the plot cells.
Chart(series, height, minimum, maximum, format) ==
    LET width == IF format = FORMAT_NONE THEN StrLen(maximum) ELSE 3
        suffix == IF format = FORMAT_NONE THEN 1 ELSE 2
        interval == Abs(maximum - minimum)
        ratio == [num |-> interval, den |-> height - 1]
        Label(y_pos) ==
            LET num == (maximum * (height - 1)) - (interval * y_pos)
                shown == RoundHalfEven(num, height - 1)
                text == StrLen(Abs(shown)) + (IF num < 0 THEN 1 ELSE 0)
            IN  [value |-> shown, minus |-> num < 0,
                 length |-> Max(width, text) + suffix]
        Column(i) ==
            IF i = Len(series)
            THEN [ok |-> TRUE, cells |-> [r \in 0..(height - 1) |-> BLANK]]
            ELSE Segment(get_row(series[i], height, ratio),
                         get_row(series[i + 1], height, ratio), height)
    IN  IF height - 1 = 0 THEN Raised("ZeroDivisionError")
        ELSE IF interval = 0 THEN Raised("ZeroDivisionError")
        ELSE IF \E i \in 1..Len(series) : ~Column(i).ok
        THEN Raised("IndexError")
        ELSE [error |-> "none",
              rows |-> [r \in 1..height |->
                 [value |-> Label(r - 1).value,
                  minus |-> Label(r - 1).minus,
                  length |-> Label(r - 1).length,
                  tick |-> IF \/ r - 1 = height - 1
                              \/ r - 1 = get_row(series[1], height, ratio)
                           THEN CROSS ELSE TEE,
                  plot |-> [i \in 1..Len(series) |-> Column(i).cells[r - 1]]]]]

plot_line_chart_unchecked(series, height, minimum, maximum, format) ==
    Chart(series, height,
          IF minimum # <<>> THEN minimum[1] ELSE SeriesMin(series),
          IF maximum # <<>> THEN maximum[1] ELSE SeriesMax(series),
          format)

\* lines 440-449, then the rest
plot_line_chart(series, height, minimum, maximum, format) ==
    IF minimum # <<>> /\ ~(minimum[1] <= SeriesMin(series))
    THEN Raised("AssertionError")
    ELSE IF maximum # <<>> /\ ~(maximum[1] >= SeriesMax(series))
    THEN Raised("AssertionError")
    ELSE Chart(series, height,
               IF minimum # <<>> THEN minimum[1] ELSE SeriesMin(series),
               IF maximum # <<>> THEN maximum[1] ELSE SeriesMax(series),
               format)

\* the arguments plot_line_chart is called with
MaxSeries == 3
MaxHeight == 5
SeriesValues == {0, 10, 50, 90, 100}
BoundValues == {-10, 0, 10, 50, 100}
SeriesArgs == UNION {[1..n -> SeriesValues] : n \in 1..MaxSeries}
BoundArgs == {<<>>} \cup {<<b>> : b \in BoundValues}

NoResult == [error |-> "not called", rows |-> <<>>]

ChartIdle ==
    /\ cPc = "idle" /\ cSeries = <<>> /\ cHeight = 0 /\ cMinimum = <<>>
    /\ cMaximum = <<>> /\ cFormat = FORMAT_NONE
    /\ cOut = NoResult /\ cAgain = NoResult

ChartInit ==
    /\ cPc = "args"
    /\ cSeries \in SeriesArgs
    /\ cHeight \in 1..MaxHeight
    /\ cMinimum \in BoundArgs
    /\ cMaximum \in BoundArgs
    /\ cFormat \in {FORMAT_NONE, FORMAT_PERCENT}
    /\ cOut = NoResult /\ cAgain = NoResult

ChartCall ==
    /\ cPc = "args"
    /\ cOut' = plot_line_chart(cSeries, cHeight, cMinimum, cMaximum, cFormat)
    /\ cPc' = "called"
    /\ UNCHANGED <<cSeries, cHeight, cMinimum, cMaximum, cFormat, cAgain>>

ChartCallAgain ==
    /\ cPc = "called"
    /\ cAgain' = plot_line_chart(cSeries, cHeight, cMinimum, cMaximum, cFormat)
    /\ cPc' = "done"
    /\ UNCHANGED <<cSeries, cHeight, cMinimum, cMaximum, cFormat, cOut>>

\* the arguments draw_memory_chart is called with: a pane of min_height
\* lines or more, used and total memory in MiB
MaxBarLines == 14
MaxRunTicks == 8
UsageValues == {-1, 0, 1, 25, 50, 99, 100, 150}
TotalValues == {-100, 0, 3, 100}

NotDrawn == [error |-> "not called", rows |-> <<>>]

BarIdle ==
    /\ bPc = "idle" /\ bLines = 0 /\ bUsage = 0 /\ bTotal = 0
    /\ bOut = NotDrawn

BarInit ==
    /\ bPc = "args"
    /\ bLines \in min_height..MaxBarLines
    /\ bUsage \in UsageValues
    /\ bTotal \in TotalValues
    /\ bOut = NotDrawn

BarDraw ==
    /\ bPc = "args"
    /\ bOut' = draw_memory_chart_rows(bLines - 2, bUsage, bTotal)
    /\ bPc' = "drawn"
    /\ UNCHANGED <<bLines, bUsage, bTotal>>

(***************************************************************************)
(* run (lines 105-112) at the grain of threads.  An invocation of mainloop *)
(* is a record [thread, n, at]: the thread that executes it, its number,   *)
(* and its position ("keys": reading the keys; "body": resize handling or  *)
(* rendering; "return").  threading.Timer.run() waits for the interval and *)
(* then calls the function itself: the invocation runs on the thread that  *)
(* called run(), which is blocked until mainloop returns.                  *)
(***************************************************************************)
MAIN_THREAD == "main"
TIMER_THREAD == "timer"

\* Timer.start(): the function runs on a thread of its own
Timer_start(caller) == TIMER_THREAD

\* t.run() (line 112): the thread that executes self.mainloop
Timer_run(caller) == caller

RunIdle ==
    /\ rPc = "idle" /\ rInv = {} /\ rCont = FALSE /\ rStarted = 0
    /\ rQuitAt = 0

RunInit ==
    /\ rPc = "clear" /\ rInv = {} /\ rCont = TRUE /\ rStarted = 0
    /\ rQuitAt \in 1..MaxRunTicks

\* lines 106-107
RunClear ==
    /\ rPc = "clear"
    /\ rPc' = "first"
    /\ UNCHANGED <<rInv, rCont, rStarted, rQuitAt>>

\* line 108: self.mainloop() called directly
RunFirst ==
    /\ rPc = "first"
    /\ rInv' = rInv \cup {[thread |-> MAIN_THREAD, n |-> rStarted + 1,
                            at |-> "keys"]}
    /\ rStarted' = rStarted + 1
    /\ rPc' = "blocked"
    /\ UNCHANGED <<rCont, rQuitAt>>

\* line 110: while self.cont
RunTest ==
    /\ rPc = "test"
    /\ rPc' = IF rCont THEN "timer" ELSE "returned"
    /\ UNCHANGED <<rInv, rCont, rStarted, rQuitAt>>

\* line 111 and the wait of the interval in Timer.run()
RunWait ==
    /\ rPc = "timer"
    /\ rStarted < MaxRunTicks
    /\ rPc' = "waited"
    /\ UNCHANGED <<rInv, rCont, rStarted, rQuitAt>>

\* line 112: the timer calls self.mainloop
RunFire ==
    /\ rPc = "waited"
    /\ LET th == Timer_run(MAIN_THREAD)
       IN  /\ rInv' = rInv \cup {[thread |-> th, n |-> rStarted + 1,
                                   at |-> "keys"]}
           /\ rPc' = IF th = MAIN_THREAD THEN "blocked" ELSE "test"
    /\ rStarted' = rStarted + 1
    /\ UNCHANGED <<rCont, rQuitAt>>

\* lines 115-120: the keys are read; q clears self.cont and returns
MainloopKeys ==
    \E v \in rInv :
        /\ v.at = "keys"
        /\ rInv' = (rInv \ {v}) \cup
                       {[v EXCEPT !.at = IF v.n = rQuitAt THEN "return"
                                         ELSE "body"]}
        /\ rCont' = IF v.n = rQuitAt THEN FALSE ELSE rCont
        /\ UNCHANGED <<rPc, rStarted, rQuitAt>>

\* lines 121-142
MainloopBody ==
    \E v \in rInv :
        /\ v.at = "body"
        /\ rInv' = (rInv \ {v}) \cup {[v EXCEPT !.at = "return"]}
        /\ UNCHANGED <<rPc, rCont, rStarted, rQuitAt>>

MainloopReturn ==
    \E v \in rInv :
        /\ v.at = "return"
        /\ rInv' = rInv \ {v}
        /\ rPc' = IF v.thread = MAIN_THREAD THEN "test" ELSE rPc
        /\ UNCHANGED <<rCont, rStarted, rQuitAt>>

(***************************************************************************)
(* The standalone script src/gpu_graph.py: run (lines 60-66) has no        *)
(* self.cont and no first direct call of mainloop; its loop is             *)
(* `while True`.  The timer and the body of mainloop are as in the package *)
(* (RunWait, RunFire, MainloopBody, MainloopReturn).  The script's finally *)
(* clause (lines 355-363) is reached when an exception leaves run().       *)
(***************************************************************************)
\* lines 62-63, then the loop is entered
StandaloneClear ==
    /\ rPc = "clear"
    /\ rPc' = "test"
    /\ UNCHANGED <<rInv, rCont, rStarted, rQuitAt>>

\* line 64: while True
StandaloneLoop ==
    /\ rPc = "test"
    /\ rPc' = "timer"
    /\ UNCHANGED <<rInv, rCont, rStarted, rQuitAt>>

\* lines 69-72: the keys are read; q makes mainloop return, nothing else
StandaloneKeys ==
    \E v \in rInv :
        /\ v.at = "keys"
        /\ rInv' = (rInv \ {v}) \cup
                       {[v EXCEPT !.at = IF v.n = rQuitAt THEN "return"
                                         ELSE "body"]}
        /\ UNCHANGED <<rPc, rCont, rStarted, rQuitAt>>

\* Ctrl-C while the timer waits: KeyboardInterrupt leaves run() and the
\* finally clause of the script restores the terminal
StandaloneInterrupt ==
    /\ rPc = "waited"
    /\ rPc' = "teardown"
    /\ UNCHANGED <<rInv, rCont, rStarted, rQuitAt>>

PlanIdle ==
    /\ pPc = "off" /\ pLines = 0 /\ pCols = 0 /\ pN = 0
    /\ pRows = 1 /\ pColumns = 1 /\ pIters = 0
    /\ pSizes = SizesNone /\ pWidth = 0

Init == SessInit /\ PlanIdle /\ ChartIdle /\ BarIdle /\ RunIdle

Next ==
    \/ InitCurses /\ UNCHANGED <<planVars, pureVars>>
    \/ Construct /\ UNCHANGED <<planVars, pureVars>>
    \/ Tick /\ UNCHANGED <<planVars, pureVars>>
    \/ RunReturns /\ UNCHANGED <<planVars, pureVars>>
    \/ Interrupt /\ UNCHANGED <<planVars, pureVars>>
    \/ Leave /\ UNCHANGED <<planVars, pureVars>>
    \/ KeyPress /\ UNCHANGED <<planVars, pureVars>>
    \/ Resize /\ UNCHANGED <<planVars, pureVars>>

Spec == Init /\ [][Next]_vars

SessIdle ==
    /\ pc = "off" /\ mode = "normal" /\ exc = "none" /\ term = <<0, 0>>
    /\ keys = {} /\ num_gpus = 0 /\ sizes = SizesNone /\ window_width = 0
    /\ redraw = FALSE /\ cont = FALSE /\ windows = <<>>
    /\ val_utilizations = <<>> /\ mem_utilizations = <<>>
    /\ planDims = <<0, 0>> /\ ticks = 0 /\ log = NoLog

PlanNext ==
    \/ PlanEnter /\ UNCHANGED <<sessVars, pureVars>>
    \/ PlanIter /\ UNCHANGED <<sessVars, pureVars>>
    \/ PlanFinish /\ UNCHANGED <<sessVars, pureVars>>

InitPlan == PlanInit /\ SessIdle /\ ChartIdle /\ BarIdle /\ RunIdle

SpecPlan == InitPlan /\ [][PlanNext]_vars

(***************************************************************************)
(* The session left alone: no key is pressed, the terminal keeps its size  *)
(* and nobody interrupts, so that every invocation of mainloop renders.    *)
(* The terminal is comfortable (24x80) or narrow (plot capacity 3 or 2).   *)
(***************************************************************************)
QuietTerms == {<<24, 80>>, <<24, 21>>, <<24, 20>>}

QuietInit ==
    /\ pc = "start" /\ mode = "normal" /\ exc = "none"
    /\ term \in QuietTerms
    /\ keys = {} /\ num_gpus = 0 /\ sizes = SizesNone /\ window_width = 0
    /\ redraw = FALSE /\ cont = FALSE /\ windows = <<>>
    /\ val_utilizations = <<>> /\ mem_utilizations = <<>>
    /\ planDims = <<0, 0>> /\ ticks = 0 /\ log = NoLog

QuietTick == TickWithin(MaxQuietTicks)

QuietNext ==
    \/ InitCurses /\ UNCHANGED <<planVars, pureVars>>
    \/ Construct /\ UNCHANGED <<planVars, pureVars>>
    \/ QuietTick /\ UNCHANGED <<planVars, pureVars>>
    \/ Leave /\ UNCHANGED <<planVars, pureVars>>

InitQuiet == QuietInit /\ PlanIdle /\ ChartIdle /\ BarIdle /\ RunIdle

SpecQuiet == InitQuiet /\ [][QuietNext]_vars

\* A session whose GPUs report a memory total that differs from one snapshot
\* to the next.
MemorySamples == {[load |-> 0, memory_used |-> 0, memory_total |-> 100],
                  [load |-> 0, memory_used |-> 50, memory_total |-> 100],
                  [load |-> 0, memory_used |-> 100, memory_total |-> 200]}

MemorySnapshots == UNION {[1..k -> MemorySamples] : k \in 1..MaxGpus}

MemoryConstruct == ConstructFrom(MemorySnapshots)

MemoryTick == TickFrom(MaxTicks, MemorySnapshots)

MemoryNext ==
    \/ InitCurses /\ UNCHANGED <<planVars, pureVars>>
    \/ MemoryConstruct /\ UNCHANGED <<planVars, pureVars>>
    \/ MemoryTick /\ UNCHANGED <<planVars, pureVars>>
    \/ Leave /\ UNCHANGED <<planVars, pureVars>>

SpecMemory == InitQuiet /\ [][MemoryNext]_vars

ChartNext ==
    \/ ChartCall /\ UNCHANGED <<planVars, sessVars, barVars, runVars>>
    \/ ChartCallAgain /\ UNCHANGED <<planVars, sessVars, barVars, runVars>>

InitChart == ChartInit /\ PlanIdle /\ SessIdle /\ BarIdle /\ RunIdle

BarNext == BarDraw /\ UNCHANGED <<planVars, sessVars, chartVars, runVars>>

InitBar == BarInit /\ PlanIdle /\ SessIdle /\ ChartIdle /\ RunIdle

SpecChart == InitChart /\ [][ChartNext]_vars

SpecBar == InitBar /\ [][BarNext]_vars

RunNext ==
    \/ RunClear /\ UNCHANGED <<planVars, sessVars, chartVars, barVars>>
    \/ RunFirst /\ UNCHANGED <<planVars, sessVars, chartVars, barVars>>
    \/ RunTest /\ UNCHANGED <<planVars, sessVars, chartVars, barVars>>
    \/ RunWait /\ UNCHANGED <<planVars, sessVars, chartVars, barVars>>
    \/ RunFire /\ UNCHANGED <<planVars, sessVars, chartVars, barVars>>
    \/ MainloopKeys /\ UNCHANGED <<planVars, sessVars, chartVars, barVars>>
    \/ MainloopBody /\ UNCHANGED <<planVars, sessVars, chartVars, barVars>>
    \/ MainloopReturn /\ UNCHANGED <<planVars, sessVars, chartVars, barVars>>

StandaloneNext ==
    \/ StandaloneClear /\ UNCHANGED <<planVars, sessVars, chartVars, barVars>>
    \/ StandaloneLoop /\ UNCHANGED <<planVars, sessVars, chartVars, barVars>>
    \/ RunWait /\ UNCHANGED <<planVars, sessVars, chartVars, barVars>>
    \/ RunFire /\ UNCHANGED <<planVars, sessVars, chartVars, barVars>>
    \/ StandaloneKeys /\ UNCHANGED <<planVars, sessVars, chartVars, barVars>>
    \/ MainloopBody /\ UNCHANGED <<planVars, sessVars, chartVars, barVars>>
    \/ MainloopReturn /\ UNCHANGED <<planVars, sessVars, chartVars, barVars>>
    \/ StandaloneInterrupt
           /\ UNCHANGED <<planVars, sessVars, chartVars, barVars>>

InitRun == RunInit /\ PlanIdle /\ SessIdle /\ ChartIdle /\ BarIdle

SpecRun == InitRun /\ [][RunNext]_vars

SpecStandalone == InitRun /\ [][StandaloneNext]_vars

(***************************************************************************)
(* Claims about the session (specification Spec)                           *)
(***************************************************************************)
NoGpusError == "AssertionError: No GPUs found"
TooSmallError == "AssertionError: Terminal window is too small."

\* C1: a tick whose drained input holds the quit key - with or without a
\* pending resize event, with a feasible or an infeasible layout - plans
\* nothing, pulls no telemetry, creates no window, draws nothing, sets cont
\* to False, and no tick runs after it.
C1_QuitTickDoesNothing ==
    /\ [](log.q => /\ log.planned = 0 /\ log.pulled = 0 /\ log.created = 0
                   /\ ~log.notice /\ log.panes = 0 /\ log.refreshes = 0
                   /\ ~cont /\ exc \in {"none", "KeyboardInterrupt"})
    /\ [][log.q => (ticks' = ticks /\ log' = log)]_vars

C1_Witness ==
    /\ log.q /\ log.resize /\ log.infeasible /\ ticks > 1 /\ pc = "returned"

\* C2: every way the session ends after curses was initialised - quit key,
\* KeyboardInterrupt, either assertion, IndexError, an error while drawing -
\* leaves gpu_graph with the terminal restored.
C2_TerminalRestoredOnEveryExit == pc = "exited" => mode = "normal"

C2_Witness == pc = "exited" /\ exc = "IndexError" /\ ticks > 1

\* C3: an empty initial snapshot makes construction fail with 'No GPUs
\* found' before any tick: no session runs with zero GPUs, mainloop is never
\* invoked, no window or history exists, and nothing follows but the exit.
C3_NoGpusFailsBeforeAnyTick ==
    /\ pc \in {"run", "hung", "returned"} => num_gpus > 0
    /\ num_gpus = 0 => (ticks = 0 /\ windows = <<>> /\ val_utilizations = <<>>
                        /\ log = NoLog)
    /\ exc = NoGpusError => (pc \in {"raised", "exited"} /\ num_gpus = 0
                             /\ sizes = SizesNone)

C3_Witness == pc = "exited" /\ exc = NoGpusError

\* C4 as stated: after a tick that began infeasible and re-planned
\* successfully, the next tick without a quit key rebuilds every pane window
\* and pulls telemetry.
C4_NextTickRebuilds ==
    (log.afterRecovery /\ ~log.q) =>
        (log.created = num_gpus /\ log.pulled = 1 /\ windows = sizes.panes)

\* C4 amended: while sizes = -1 every tick without a quit key re-runs
\* calculate_sizes, pulls no telemetry, creates no window, renders no pane
\* and draws nothing but the notice (drawn and flushed once when the re-plan
\* is infeasible again and does not raise); after a successful re-plan the
\* next tick with neither a quit key nor a resize event rebuilds every pane
\* window on the new geometry and pulls telemetry, rendering every pane
\* unless the snapshot makes the tick raise; with a resize event it re-plans
\* again instead.
C4_InfeasibleTicksReplan ==
    /\ (log.infeasible /\ ~log.q) =>
          /\ log.planned = 1 /\ log.pulled = 0 /\ log.created = 0
          /\ log.panes = 0
          /\ log.notice => (sizes = SizesMinus1 /\ log.refreshes = 1)
          /\ (sizes = SizesMinus1 /\ exc = "none") => log.notice
    /\ (log.afterRecovery /\ ~log.q /\ ~log.resize) =>
          /\ log.planned = 0 /\ ~log.notice
          /\ log.created = num_gpus /\ log.pulled = 1
          /\ windows = sizes.panes
          /\ exc = "none" => (log.panes = num_gpus /\ log.refreshes = 1)
    /\ (log.afterRecovery /\ ~log.q /\ log.resize) =>
          (log.planned = 1 /\ log.created = 0 /\ log.pulled = 0)

C4_Witness ==
    /\ log.afterRecovery /\ ~log.q /\ ~log.resize /\ ticks = 3
    /\ log.panes = num_gpus /\ num_gpus = 2 /\ exc = "none"

\* C5: whenever a re-plan yields -1, at any terminal size,
\* handle_window_resize returns normally: no exception ends the session.
C5_InfeasibleNeverRaises ==
    (ticks > 0 /\ log.planned > 0 /\ sizes = SizesMinus1)
        => exc \in {"none", "KeyboardInterrupt"}

\* C10: the geometry held by the session is the geometry a fresh session
\* computes from the terminal size read at the last calculate_sizes call and
\* the pane count, whatever ticks, resizes and infeasible periods came
\* before.
C10_GeometryDependsOnSizeOnly ==
    sizes.tag # "None" =>
        sizes = calculate_sizes([num_gpus |-> num_gpus, sizes |-> SizesNone,
                                 window_width |-> 0], planDims).sizes

C10_Witness ==
    /\ ticks = 3 /\ log.planned = 1 /\ log.resize /\ log.afterRecovery
    /\ sizes.tag = "list" /\ planDims = <<24, 20>> /\ num_gpus = 2

(***************************************************************************)
(* Claims about the layout planner (specification SpecPlan)                *)
(***************************************************************************)
PlanDone == pPc = "done"
Feasible == pSizes.tag = "list"

\* Some grid shape rows x columns with rows * columns >= n gives panes of at
\* least min_height lines and min_width columns.
SomeShapeFits(l, c, n) ==
    \E r \in 1..n, k \in 1..n :
        /\ r * k >= n
        /\ ((c - 1) \div k) - 1 >= 18
        /\ ((l - 2) \div r) - 1 >= 10

\* C6: every iteration of the growth loop of calculate_sizes increases rows
\* or columns (so the loop ends once rows * columns >= pane count), in the
\* tie-break branch too.
C6_EveryIterationGrows == pIters = (pRows - 1) + (pColumns - 1)

\* C7 as stated: a 40 x 160 terminal with 4 panes is planned as 2 x 2.
C7_Grid2x2 ==
    (PlanDone /\ pLines = 40 /\ pCols = 160 /\ pN = 4)
        => (pRows = 2 /\ pColumns = 2)

\* C7 amended: a 40 x 160 terminal with 4 panes is planned as 1 row by 4
\* columns, each pane 37 lines by 38 columns.
C7_Grid1x4 ==
    (PlanDone /\ pLines = 40 /\ pCols = 160 /\ pN = 4)
        => /\ pRows = 1 /\ pColumns = 4
           /\ Feasible
           /\ \A k \in 1..4 : pSizes.panes[k].nlines = 37
                              /\ pSizes.panes[k].ncols = 38

C7_Witness == PlanDone /\ pLines = 40 /\ pCols = 160 /\ pN = 4 /\ pIters = 3

C9_RowMajorGeometry ==
    PlanDone =>
        LET W == ((pCols - 1) \div pColumns) - 1
            H == ((pLines - 2) \div pRows) - 1
        IN  /\ (pSizes = SizesMinus1) <=> (W < 18 \/ H < 10)
            /\ pSizes # SizesMinus1 =>
                  /\ Feasible
                  /\ Len(pSizes.panes) = pN
                  /\ \A k \in 1..pN :
                        LET i == k - 1
                            g == pSizes.panes[k]
                            gc == i % pColumns
                            gr == i \div pColumns
                        IN  /\ g.ncols = W /\ g.nlines = H
                            /\ g.begin_x = (gc * W) + (IF gc = 0 THEN 0 ELSE 1)
                            /\ g.begin_y = (gr * H) + (IF gr = 0 THEN 0 ELSE 1)

C9_Witness ==
    /\ PlanDone /\ Feasible /\ pN = 5 /\ pRows = 2 /\ pColumns = 3
    /\ pSizes.panes[5].begin_x > 0 /\ pSizes.panes[5].begin_y > 0

(***************************************************************************)
(* The rolling utilization histories                                       *)
(***************************************************************************)
\* the plot capacity of pane i: the sub-window's width minus 7
Capacity(i) == sizes.panes[i].ncols - 16

\* C11: at the end of every invocation of mainloop that rendered, whatever
\* ticks, resizes and infeasible periods came before it, no pane's
\* utilization history is longer than the plot capacity (ncols - 16) of the
\* pane's geometry.
C11_HistoryWithinCapacity ==
    log.pulled = 1 =>
        /\ sizes.tag = "list"
        /\ Len(val_utilizations) = Len(sizes.panes)
        /\ \A i \in 1..Len(val_utilizations) :
              Len(val_utilizations[i]) <= Capacity(i)

\* three rendering ticks on the narrowest pane (capacity 2): the history was
\* cut on every one of them
C11_Witness ==
    /\ ticks = 3 /\ log.pulled = 1 /\ exc = "none" /\ Len(log.observed) = 3
    /\ sizes.tag = "list" /\ Len(sizes.panes) = 2
    /\ \A i \in 1..2 : Capacity(i) = 2 /\ Len(val_utilizations[i]) = 2
    /\ val_utilizations[1] = <<0, 100>>

\* the value of pane i (1-based) in the k-th snapshot pulled since the panes
\* were rebuilt
Observed(k, i) == Percent(log.observed[k][i])

\* C12 as stated: after k rendering ticks at 24x80 with 2 GPUs, k within the
\* capacity, pane 0's history is exactly the k observed values.
C12_HistoryIsObserved ==
    (/\ pc = "run" /\ planDims = <<24, 80>> /\ num_gpus = 2
     /\ ticks >= 1 /\ ticks <= Capacity(1))
    => val_utilizations[1] = [k \in 1..ticks |-> Observed(k, 1)]

\* C12, amended: after k rendering ticks at 24x80 with 2 GPUs, k + 2 within
\* the capacity, pane 0's history has k + 2 entries: the two zeros the
\* history is seeded with, then the k observed values, oldest first.
C12_HistoryIsSeedThenObserved ==
    (/\ pc = "run" /\ planDims = <<24, 80>> /\ num_gpus = 2
     /\ ticks >= 1 /\ ticks + 2 <= Capacity(1))
    => /\ Len(log.observed) = ticks
       /\ val_utilizations[1] =
              <<0, 0>> \o [k \in 1..ticks |-> Observed(k, 1)]

C12_Witness ==
    /\ pc = "run" /\ planDims = <<24, 80>> /\ num_gpus = 2 /\ ticks = 3
    /\ val_utilizations[1] = <<0, 0, 100, 0, 100>>

\* C13: the history is a FIFO.  Every rendering tick appends exactly one
\* value, the pane's load in the snapshot just pulled, at the end of the
\* history (of the seed, on the tick that rebuilds the panes); when that makes
\* it longer than the capacity, exactly the oldest entry goes and the others
\* keep their order.  With capacity 3, after four ticks the history is the
\* values observed on ticks 2, 3 and 4.
C13_HistoryIsFifo ==
    /\ [][(ticks' = ticks + 1 /\ pc' = "run" /\ log'.pulled = 1) =>
            \A i \in 1..num_gpus :
               LET before == IF log'.created > 0 THEN <<0, 0>>
                             ELSE val_utilizations[i]
                   last == Len(log'.observed)
                   after == Append(before, Percent(log'.observed[last][i]))
               IN  /\ last = Len(log.observed) + 1 \/ log'.created > 0
                   /\ val_utilizations'[i] =
                         IF Len(after) > Capacity(i) THEN Tail(after) ELSE after
          ]_vars
    /\ []((pc = "run" /\ ticks = 4 /\ Capacity(1) = 3) =>
             val_utilizations[1] =
                 <<Observed(2, 1), Observed(3, 1), Observed(4, 1)>>)

C13_Witness ==
    /\ pc = "run" /\ ticks = 4 /\ Capacity(1) = 3
    /\ Observed(1, 1) = 0 /\ val_utilizations[1] = <<100, 0, 100>>

\* the first mainloop invocation after one that handled a resize event and
\* planned a layout, when it has neither the quit key nor another resize
\* event to handle
RendersAfterResize == log.afterResize /\ ~log.q /\ ~log.resize

\* C14 as stated: on the tick after a resize event was handled every pane's
\* history is empty.
C14_HistoriesEmptyAfterResize ==
    (RendersAfterResize /\ exc = "none") =>
        \A i \in 1..Len(val_utilizations) : val_utilizations[i] = <<>>

\* C14, amended: the tick that handles a resize event renders nothing and
\* leaves the histories as they were; the next rendering tick rebuilds the
\* panes and every history is the seed [0, 0] followed by that tick's
\* sample (cut to the capacity): none of the earlier samples is kept.
C14_HistoriesReseededAfterResize ==
    /\ [][(ticks' = ticks + 1 /\ log'.resize /\ ~log'.q) =>
             /\ val_utilizations' = val_utilizations
             /\ log'.pulled = 0 /\ log'.created = 0]_vars
    /\ []((RendersAfterResize /\ exc = "none") =>
            /\ log.created = num_gpus /\ Len(log.observed) = 1
            /\ \A i \in 1..num_gpus :
                  val_utilizations[i] =
                      IF Capacity(i) = 2 THEN <<0, Observed(1, i)>>
                      ELSE <<0, 0, Observed(1, i)>>)

\* a session that was resized from 24x20 to 24x80 and rendered again
C14_Witness ==
    /\ RendersAfterResize /\ exc = "none" /\ ticks = 3 /\ num_gpus = 2
    /\ term = <<24, 80>> /\ planDims = <<24, 80>>
    /\ val_utilizations = << <<0, 0, 100>>, <<0, 0, 0>> >>

\* C15 as stated: a tick after startup whose snapshot has fewer entries than
\* there are panes does not fail, and the loop goes on.
C15_ShortSnapshotTolerated ==
    (log.pulled = 1 /\ log.count < num_gpus) =>
        /\ exc # "IndexError"
        /\ pc \in {"run", "returned"} \/ exc \in {"ValueError", "KeyboardInterrupt"}

\* C16 as stated: a tick after startup whose snapshot has fewer or more
\* entries than there are panes ends the session with an error.
C16_CountMismatchEndsSession ==
    (log.pulled = 1 /\ log.count # num_gpus) =>
        /\ pc \in {"raised", "exited"}
        /\ exc \notin {"none", "KeyboardInterrupt"}

(***************************************************************************)
(* Claims about plot_line_chart (specification SpecChart)                  *)
(***************************************************************************)
\* the y-axis bounds in force: the argument, or the series' own extreme
Lo == IF cMinimum # <<>> THEN cMinimum[1] ELSE SeriesMin(cSeries)
Hi == IF cMaximum # <<>> THEN cMaximum[1] ELSE SeriesMax(cSeries)

\* minimum <= min(series) and maximum >= max(series), where given
ValidBounds ==
    /\ cMinimum # <<>> => cMinimum[1] <= SeriesMin(cSeries)
    /\ cMaximum # <<>> => cMaximum[1] >= SeriesMax(cSeries)

\* the length of row r of the result as a string: label, tick, plot cells
RowLength(r) == cOut.rows[r].length + 1 + Len(cOut.rows[r].plot)

\* C17 as stated: for a non-empty series, valid bounds (minimum = maximum
\* and a non-zero minimum included) and height >= 2 the call returns, without
\* error, `height` rows of one length, each with len(series) plot cells, and
\* a second call returns the same.
C17_ChartIsTotalAndRectangular ==
    (cPc = "done" /\ cHeight >= 2 /\ ValidBounds) =>
        /\ cOut.error = "none"
        /\ Len(cOut.rows) = cHeight
        /\ \A r \in 1..Len(cOut.rows) :
              /\ Len(cOut.rows[r].plot) = Len(cSeries)
              /\ RowLength(r) = RowLength(1)
        /\ cAgain = cOut

\* C18: a minimum above the smallest value of the series, or a maximum below
\* the largest, makes the call fail (AssertionError) and return no rows.
C18_BoundsAreAsserted ==
    (cPc \in {"called", "done"} /\ ~ValidBounds) =>
        /\ cOut.error = "AssertionError"
        /\ cOut.rows = <<>>

C18_Witness ==
    /\ cPc = "called" /\ cSeries = <<10, 90>> /\ cMinimum = <<50>>
    /\ cMaximum = <<>> /\ cHeight = 5 /\ cOut.error = "AssertionError"

\* C19 as stated: whatever the minimum, the row get_row gives a value v of
\* the series is (height-1) - (v - minimum)/ratio rounded to an integer, lies
\* in 0..height-1, is 0 for v = maximum and height-1 for v = minimum.
C19_RowFollowsMinimum ==
    (cPc = "called" /\ cHeight >= 2 /\ ValidBounds /\ Hi > Lo) =>
        \A k \in 1..Len(cSeries) :
            LET v == cSeries[k]
                ratio == [num |-> Hi - Lo, den |-> cHeight - 1]
                row == get_row(v, cHeight, ratio)
                \* ((height-1) - (v - minimum)/ratio) * (maximum - minimum)
                exact == (cHeight - 1) * ((Hi - Lo) - (v - Lo))
            IN  /\ 2 * Abs((row * (Hi - Lo)) - exact) <= Hi - Lo
                /\ row \in 0..(cHeight - 1)
                /\ v = Hi => row = 0
                /\ v = Lo => row = cHeight - 1

(***************************************************************************)
(* Claims about draw_memory_chart (specification SpecBar)                  *)
(***************************************************************************)
\* the rows of the bar, as indices of bOut.rows: rows 0..h-3 of the window
BarRows == 1..(bLines - 4)

C21_BarHoldsEveryUnit ==
    (bPc = "drawn" /\ 0 < bUsage /\ bUsage <= bTotal) =>
        LET usableHeight == bLines - 4
            blocks == (bUsage * 2 * usableHeight) \div bTotal
        IN  /\ bOut.error = "none"
            /\ \A r \in BarRows :
                  bOut.rows[r] =
                      IF usableHeight - r < blocks \div 2 THEN ROW_FULL
                      ELSE IF usableHeight - r = blocks \div 2 /\ blocks % 2 = 1
                      THEN ROW_HALF
                      ELSE ROW_BLANK

\* C22 as stated: with used < 0 or total <= 0 the call fails and draws no
\* bar.
C22_InvalidRatioFails ==
    (bPc = "drawn" /\ (bUsage < 0 \/ bTotal <= 0)) =>
        /\ bOut.error # "none"
        /\ bOut.rows = <<>>

(***************************************************************************)
(* Screen updates                                                          *)
(***************************************************************************)
\* the physical screen updates of the last mainloop invocation: the explicit
\* ones (stdscr.refresh, doupdate) and the one getch makes
Flushes == log.refreshes + (IF log.keyFlush THEN 1 ELSE 0)

\* the last invocation went through the rendering section to its end
Rendered == ticks > 0 /\ log.pulled = 1 /\ exc = "none"

\* C23 as stated: a tick that renders issues exactly one physical refresh,
\* after all panes are written; any other tick issues at most one; no tick
\* updates the screen more than once.
C23_OneFlushPerTick ==
    ticks > 0 =>
        /\ Rendered => log.refreshes = 1 /\ log.panes = num_gpus
        /\ Flushes <= 1

\* C23, amended: a tick that renders calls doupdate exactly once, after all
\* panes are written; a tick that does not render calls stdscr.refresh once
\* if it draws the notice and not at all otherwise.  On top of that, getch
\* refreshes stdscr at the start of the first tick, of a tick with a resize
\* event and of the tick after a call of handle_window_resize that planned a
\* layout, so that a tick updates the screen at most twice.
C23_OneExplicitRefreshPerTick ==
    ticks > 0 =>
        /\ Rendered => log.refreshes = 1 /\ log.panes = num_gpus
        /\ (log.pulled = 0 /\ exc = "none") =>
              log.refreshes = (IF log.notice THEN 1 ELSE 0)
        /\ log.refreshes <= 1
        /\ Flushes <= 2
        /\ (ticks = 1 \/ log.resize \/ log.afterResize \/ log.afterRecovery)
              => log.keyFlush

\* a resize event on an infeasible terminal: getch refreshes the resized
\* stdscr, then the notice is drawn and refreshed
C23_Witness ==
    /\ ticks = 2 /\ exc = "none" /\ log.resize /\ log.notice
    /\ log.refreshes = 1 /\ Flushes = 2

\* the last invocation read a resize event (and no q) and planned a layout
FeasibleResizeTick ==
    /\ ticks > 0 /\ log.resize /\ ~log.q /\ exc = "none"
    /\ log.planned > 0 /\ sizes.tag = "list"

\* C24 as stated: a tick with a resize event whose re-plan is feasible
\* resets the histories, redraws the panes, pulls one snapshot and renders
\* every pane in that same tick.
C24_FeasibleResizeRendersInSameTick ==
    FeasibleResizeTick =>
        /\ log.created = num_gpus
        /\ log.pulled = 1
        /\ log.panes = num_gpus
        /\ ~redraw

\* C25: whenever mainloop reaches the sampling and rendering section, the
\* stored geometry is a list of panes planned for the terminal size of the
\* latest planning (at start-up or at the latest resize event handled), and
\* there is one window per GPU, created for exactly that geometry, and one
\* history per GPU.
C25_RendersIntoCurrentGeometry ==
    (ticks > 0 /\ log.pulled = 1) =>
        /\ sizes.tag = "list"
        /\ sizes = calculate_sizes([num_gpus |-> num_gpus, sizes |-> SizesNone,
                                    window_width |-> 0], planDims).sizes
        /\ windows = sizes.panes
        /\ Len(windows) = num_gpus
        /\ Len(val_utilizations) = num_gpus

\* panes are rendered on the tick after a resize from 24x80 to 24x31
C25_Witness ==
    /\ ticks = 3 /\ log.pulled = 1 /\ log.afterResize /\ exc = "none"
    /\ planDims = <<24, 31>> /\ num_gpus = 1 /\ log.panes = 1

\* C27 as stated: histories are reset only if the geometry has changed.  On
\* a rendering tick that starts with windows created for exactly the stored
\* geometry, whatever resize events were handled since, every history is
\* the old history with the new sample appended (and cut to the capacity).
C27_SameGeometryKeepsHistories ==
    [][(/\ ticks' = ticks + 1 /\ log'.pulled = 1 /\ exc' = "none"
        /\ sizes.tag = "list" /\ windows = sizes.panes
        /\ Len(windows) = num_gpus) =>
          \A i \in 1..num_gpus :
             LET last == Len(log'.observed)
                 after == Append(val_utilizations[i],
                                 Percent(log'.observed[last][i]))
             IN  val_utilizations'[i] =
                    IF Len(after) > Capacity(i) THEN Tail(after) ELSE after
      ]_vars

\* C28 as stated: after every rendering tick each pane's stored memory
\* fields, the used value and the total value, are those of its GPU in the
\* snapshot pulled on that tick.
C28_MemoryFieldsFollowSnapshot ==
    Rendered =>
        \A i \in 1..num_gpus :
            /\ mem_utilizations[i].gpu_usage = log.memory[i].memory_used
            /\ mem_utilizations[i].gpu_total = log.memory[i].memory_total

(***************************************************************************)
(* More claims about plot_line_chart (specification SpecChart)             *)
(***************************************************************************)
\* the row of sample k of the series (0 at the top)
SampleRow(k) ==
    get_row(cSeries[k], cHeight, [num |-> Hi - Lo, den |-> cHeight - 1])

\* the glyph in row r (0 at the top) of plot column i (1-based) of the result
Cell(r, i) == cOut.rows[r + 1].plot[i]

\* C29: with minimum 0, plot column i shows the segment between samples i
\* and i + 1, at rows y0 and y1: if y0 = y1 one horizontal glyph at that row;
\* otherwise an end cap at y0 and one at y1, chosen by whether the line falls
\* (y0 < y1) or rises, and a vertical glyph in every row strictly between;
\* blanks in all other rows.  The last plot column is blank.
C29_SegmentsAreContinuous ==
    (cPc \in {"called", "done"} /\ cOut.error = "none" /\ Lo = 0) =>
        /\ \A i \in 1..(Len(cSeries) - 1) :
              LET y0 == SampleRow(i)
                  y1 == SampleRow(i + 1)
              IN  /\ y0 \in 0..(cHeight - 1)
                  /\ y1 \in 0..(cHeight - 1)
                  /\ \A r \in 0..(cHeight - 1) :
                        Cell(r, i) =
                           IF y0 = y1
                           THEN (IF r = y0 THEN FLAT ELSE BLANK)
                           ELSE IF r = y0
                           THEN (IF y0 < y1 THEN FROM_LEFT_DOWN
                                 ELSE FROM_LEFT_UP)
                           ELSE IF r = y1
                           THEN (IF y0 < y1 THEN DOWN_TO_RIGHT
                                 ELSE UP_TO_RIGHT)
                           ELSE IF (y0 < r /\ r < y1) \/ (y1 < r /\ r < y0)
                           THEN VERTICAL
                           ELSE BLANK
        /\ \A r \in 0..(cHeight - 1) : Cell(r, Len(cSeries)) = BLANK

\* 0, 100, 100 on five rows: the first column rises from the bottom row to
\* the top row through three vertical glyphs, the second is flat at the top
C29_Witness ==
    /\ cPc = "called" /\ cOut.error = "none" /\ Lo = 0
    /\ cSeries = <<0, 100, 100>> /\ cHeight = 5
    /\ Cell(4, 1) = FROM_LEFT_UP /\ Cell(0, 1) = UP_TO_RIGHT
    /\ \A r \in 1..3 : Cell(r, 1) = VERTICAL
    /\ Cell(0, 2) = FLAT /\ Cell(0, 3) = BLANK

\* C30 as stated: a series of length 1 renders axis-only for every height
\* >= 2, with explicit bounds and with the default bounds alike: the call
\* returns `height` rows, each with one blank plot cell, without raising.
C30_SingleSampleRendersAxisOnly ==
    (/\ cPc \in {"called", "done"} /\ Len(cSeries) = 1 /\ cHeight >= 2
     /\ ValidBounds) =>
        /\ cOut.error = "none"
        /\ Len(cOut.rows) = cHeight
        /\ \A r \in 1..Len(cOut.rows) :
              /\ cOut.rows[r].tick \in {CROSS, TEE}
              /\ cOut.rows[r].plot = <<BLANK>>

(***************************************************************************)
(* More claims about draw_memory_chart (specification SpecBar)             *)
(***************************************************************************)
\* C31 as stated: the label with the used value is written in the row
\* immediately above the bar, at a smaller row index than every bar row.
C31_LabelAboveBar ==
    (bPc = "drawn" /\ bOut.error = "none") =>
        \E r \in 1..Len(bOut.rows) :
            /\ bOut.rows[r] = ROW_VALUE
            /\ \A b \in BarRows : r < b

(***************************************************************************)
(* More claims about calculate_sizes (specification SpecPlan)              *)
(***************************************************************************)
\* two pane rectangles share no cell
Disjoint(a, b) ==
    \/ a.begin_x + a.ncols <= b.begin_x
    \/ b.begin_x + b.ncols <= a.begin_x
    \/ a.begin_y + a.nlines <= b.begin_y
    \/ b.begin_y + b.nlines <= a.begin_y

\* C32: whenever calculate_sizes yields a geometry list, the panes are
\* pairwise disjoint, every pane lies inside the terminal, and no pane
\* reaches the last terminal line, which draw_bottom_bar writes.
C32_PanesTileTheTerminal ==
    (PlanDone /\ Feasible) =>
        /\ \A j, k \in 1..Len(pSizes.panes) :
              j < k => Disjoint(pSizes.panes[j], pSizes.panes[k])
        /\ \A k \in 1..Len(pSizes.panes) :
              LET g == pSizes.panes[k]
              IN  /\ g.begin_x >= 0 /\ g.begin_y >= 0
                  /\ g.ncols > 0 /\ g.nlines > 0
                  /\ g.begin_x + g.ncols <= pCols
                  /\ g.begin_y + g.nlines <= pLines - 1

\* five panes in a 2 x 3 grid: panes side by side and one above the other
C32_Witness ==
    /\ PlanDone /\ Feasible /\ pN = 5 /\ pRows = 2 /\ pColumns = 3
    /\ pSizes.panes[2].begin_x = pSizes.panes[1].ncols + 1
    /\ pSizes.panes[4].begin_y = pSizes.panes[1].nlines + 1

\* the column just past the right edge of pane k
RightEdge(k) == pSizes.panes[k].begin_x + pSizes.panes[k].ncols

\* C34 as stated: after a feasible plan window_width is the right edge of
\* the rightmost pane column plus one, for every pane count, those that
\* leave the last grid row partially filled included.
C34_WidthSpansRightmostColumn ==
    (PlanDone /\ Feasible) =>
        /\ \A k \in 1..pN : RightEdge(k) + 1 <= pWidth
        /\ \E k \in 1..pN : RightEdge(k) + 1 = pWidth

(***************************************************************************)
(* The chart inside its pane (specification SpecQuiet)                     *)
(***************************************************************************)
\* the size of the plot sub-window of pane i (lines 230-234)
PlotHeight(i) == sizes.panes[i].nlines - 4
PlotWidth(i) == sizes.panes[i].ncols - 9

\* what draw_utilization_plot gets from plot_line_chart for pane i
\* (lines 238-242)
PaneChart(i) ==
    plot_line_chart(val_utilizations[i], PlotHeight(i), <<0>>, <<100>>,
                    FORMAT_PERCENT)

\* the invocation pulled a snapshot with a sample for every pane, and no
\* load in the histories is NaN
SampledAllPanes ==
    /\ ticks > 0 /\ log.pulled = 1 /\ log.count >= num_gpus
    /\ \A i \in 1..Len(val_utilizations) :
          \A k \in 1..Len(val_utilizations[i]) : val_utilizations[i][k] # NaN

\* C33: on every rendering tick, the first one after a reset included, each
\* row that plot_line_chart returns for a pane has 6 label and tick cells
\* and one cell per history entry, and is strictly shorter than the pane's
\* plot sub-window is wide (ncols - 9); no write of a row fails.
C33_ChartRowsFitPlotWindow ==
    SampledAllPanes =>
        /\ exc = "none"
        /\ \A i \in 1..num_gpus :
              LET res == PaneChart(i)
              IN  /\ res.error = "none"
                  /\ Len(res.rows) = PlotHeight(i)
                  /\ \A r \in 1..Len(res.rows) :
                        LET length == res.rows[r].length + 1
                                         + Len(res.rows[r].plot)
                        IN  /\ length = 6 + Len(val_utilizations[i])
                            /\ length < PlotWidth(i)

\* the first tick on the narrowest pane (18 columns, plot window 9 wide):
\* the seed and the first sample are cut to two entries, rows of 8 cells
C33_Witness ==
    /\ SampledAllPanes /\ ticks = 1 /\ log.created = 1 /\ num_gpus = 1
    /\ PlotWidth(1) = 9 /\ val_utilizations[1] = <<0, 100>>
    /\ PaneChart(1).rows[1].length + 1 + Len(PaneChart(1).rows[1].plot) = 8

(***************************************************************************)
(* Claims about the loop of run (specification SpecRun)                    *)
(***************************************************************************)
\* C26: ticks never overlap.  At most one invocation of mainloop is in
\* progress at any time, it runs on the thread that called run(), and that
\* thread starts the next timer only when no invocation is in progress.
C26_TicksNeverOverlap ==
    /\ Cardinality(rInv) <= 1
    /\ \A v \in rInv : v.thread = MAIN_THREAD /\ v.n = rStarted
    /\ rInv # {} <=> rPc = "blocked"

\* the third invocation is in its body while run() is blocked in t.run()
C26_Witness ==
    /\ rPc = "blocked" /\ rStarted = 3
    /\ rInv = {[thread |-> MAIN_THREAD, n |-> 3, at |-> "body"]}

(***************************************************************************)
(* Claims about the standalone script (specification SpecStandalone)       *)
(***************************************************************************)
\* C35 as stated: the tick that reads q ends the session.  Once that
\* invocation of mainloop has returned, run() schedules no further tick and
\* returns: no invocation is ever started after the one that read q.
C35_QuitStopsTheLoop ==
    /\ rStarted <= rQuitAt
    /\ (rStarted = rQuitAt /\ rInv = {} /\ rPc # "blocked")
          => rPc \in {"test", "returned", "teardown"}

====
